---- MODULE Spec2Model ----
(***************************************************************************)
(* Model of scripts/ingest_raw.py: chunked daily / full ingestion of the   *)
(* Retailrocket CSV drops into the raw schema, one transaction per run.    *)
(*                                                                         *)
(* A source row is identified by (file, idx): idx is the zero-based count  *)
(* of data rows below the header.  A destination row is a source row plus  *)
(* its ingestion_date.  Destination tables are bags, so that a duplicated  *)
(* load is visible.                                                        *)
(***************************************************************************)
EXTENDS Integers, Sequences, FiniteSets, Bags, TLC

(* ---------------------------- bounds ----------------------------------- *)
MaxRows == 2          \* data rows of events.csv and item_properties_part1.csv
MaxSmallRows == 1     \* data rows of item_properties_part2.csv, category_tree.csv
MaxRuns == 2          \* runs started per behaviour of the general specification
MaxDrainRuns == 3     \* committed runs per behaviour of the daily specification
MaxSourceChanges == 1 \* rewrites of a source file per behaviour
MaxProbeRows == 4     \* data rows of the source of a single prepare_rows call
MaxProbeStart == 5    \* start_row of a single prepare_rows call
MaxProbeCap == 5      \* max_rows of a single prepare_rows call

(* ---------------------------- catalog ---------------------------------- *)
RAW_FILES ==
  << [name |-> "events", table |-> "raw.events", incremental |-> TRUE],
     [name |-> "item_properties_part1", table |-> "raw.item_properties", incremental |-> TRUE],
     [name |-> "item_properties_part2", table |-> "raw.item_properties", incremental |-> TRUE],
     [name |-> "category_tree", table |-> "raw.category_tree", incremental |-> FALSE] >>

NFiles == Len(RAW_FILES)
FileNames == { RAW_FILES[k].name : k \in 1..NFiles }
DDL_BY_TABLE == { "raw.events", "raw.item_properties", "raw.category_tree" }
Cfg(f) == CHOOSE c \in { RAW_FILES[k] : k \in 1..NFiles } : c.name = f
FilesOf(t) == { f \in FileNames : Cfg(f).table = t }

Dates == { "d1", "d2" }
ChunkSizes == { -1, 0, 1, 2 }

(* A source file: absent from the source directory, present but empty (no  *)
(* header line), or a header followed by `rows` data rows.                 *)
SrcMissing == [exists |-> FALSE, header |-> FALSE, rows |-> 0]
SrcEmpty == [exists |-> TRUE, header |-> FALSE, rows |-> 0]
SrcRows(n) == [exists |-> TRUE, header |-> TRUE, rows |-> n]
RowBound(f) == IF f \in {"events", "item_properties_part1"} THEN MaxRows ELSE MaxSmallRows
SourceChoices(f) == {SrcMissing, SrcEmpty} \cup { SrcRows(n) : n \in 0..RowBound(f) }

Max(a, b) == IF a >= b THEN a ELSE b
Min(a, b) == IF a <= b THEN a ELSE b

(* ---------------------------- state ------------------------------------ *)
VARIABLES
  source,        \* file name -> source file in --source-dir
  db,            \* committed database: tables and raw.ingestion_state
  tx,            \* the open connection's view (uncommitted transaction)
  pc,            \* "idle" | "loop" | "done"
  args,          \* argparse.Namespace of the current / last run
  state,         \* ingest(): snapshot returned by load_state
  i,             \* ingest(): position of the for loop in RAW_FILES (1-based)
  total_loaded,  \* ingest(): running total
  table_tracker, \* ingest(): tables already cleared in this run
  temp_files,    \* ingest(): artifacts registered for cleanup
  disk,          \* staging artifacts of this run that exist on disk
  outcome,       \* "none" | "committed" | "rolledback"
  hist,          \* what the current / last run did (observation only)
  log,           \* what the runs so far did (observation only)
  probe          \* a single prepare_rows call: its arguments and its result

vars == << source, db, tx, pc, args, state, i, total_loaded, table_tracker,
           temp_files, disk, outcome, hist, log, probe >>

(* raw.ingestion_state: a row per file name, or none *)
NoRow == [present |-> FALSE, last_row |-> 0, completed |-> FALSE]
StateRow(l, c) == [present |-> TRUE, last_row |-> l, completed |-> c]

EmptyDb == [tables |-> [t \in DDL_BY_TABLE |-> EmptyBag],
            ingestion_state |-> [f \in FileNames |-> NoRow]]

Row(f, idx, d) == [file |-> f, idx |-> idx, date |-> d]

(* ---------------------------- State Store ------------------------------ *)
load_state_always_reset(d, reset) ==
  [d EXCEPT !.ingestion_state = [f \in FileNames |-> NoRow]]

\* load_state: TRUNCATE raw.ingestion_state when reset, then SELECT.
load_state_db(d, reset) ==
  IF reset THEN [d EXCEPT !.ingestion_state = [f \in FileNames |-> NoRow]] ELSE d

\* state.get(cfg.name, (0, False)) on the snapshot
StateGet(st, f) == IF st[f].present THEN << st[f].last_row, st[f].completed >>
                   ELSE << 0, FALSE >>

save_state_zero(d, f, last_row, completed) ==
  [d EXCEPT !.ingestion_state[f] = StateRow(0, completed)]

\* save_state: INSERT ... ON CONFLICT (file_name) DO UPDATE
save_state(d, f, last_row, completed) ==
  [d EXCEPT !.ingestion_state[f] = StateRow(last_row, completed)]

(* ---------------------------- Row Slicer ------------------------------- *)
CapReachedLate(written, max_rows) == written > max_rows

\* `max_rows is not None and written >= max_rows`, given that max_rows is set
CapReached(written, max_rows) == written >= max_rows

\* The for / else loop of prepare_rows over enumerate(reader).
RECURSIVE SliceLoop(_, _, _, _, _, _, _)
SliceLoop(n, idx, start_row, capped, max_rows, out, last_row_index) ==
  IF idx >= n
  THEN \* iterator exhausted: the else branch of the for loop
       [rows |-> out, reached_eof |-> TRUE, last_row |-> Max(start_row, last_row_index)]
  ELSE IF idx < start_row
  THEN SliceLoop(n, idx + 1, start_row, capped, max_rows, out, last_row_index)
  ELSE IF capped /\ CapReached(Len(out), max_rows)
  THEN [rows |-> out, reached_eof |-> FALSE, last_row |-> start_row + Len(out)]
  ELSE SliceLoop(n, idx + 1, start_row, capped, max_rows, Append(out, idx), idx + 1)

\* prepare_rows: (artifact or None, written, reached_eof, last_row_index).
\* `rows` are the source indices staged in the artifact, in order;
\* `opened` tells whether the source was opened and read.
EarlyReturnZero(start_row) ==
  [prepared |-> FALSE, rows |-> << >>, written |-> 0, reached_eof |-> FALSE,
   last_row |-> 0, opened |-> FALSE]

\* max_rows <= 0: return None, 0, False, start_row
EarlyReturn(start_row) ==
  [prepared |-> FALSE, rows |-> << >>, written |-> 0, reached_eof |-> FALSE,
   last_row |-> start_row, opened |-> FALSE]

prepare_rows_from_zero(src, start_row, capped, max_rows) ==
  IF capped /\ max_rows <= 0
  THEN EarlyReturn(start_row)
  ELSE IF ~src.header
  THEN [prepared |-> FALSE, rows |-> << >>, written |-> 0, reached_eof |-> TRUE,
        last_row |-> start_row, opened |-> TRUE]
  ELSE LET r == SliceLoop(src.rows, 0, 0, capped, max_rows, << >>, 0)
       IN  [prepared |-> Len(r.rows) > 0,
            rows |-> IF Len(r.rows) = 0 THEN << >> ELSE r.rows,
            written |-> Len(r.rows), reached_eof |-> r.reached_eof,
            last_row |-> r.last_row, opened |-> TRUE]

prepare_rows(src, start_row, capped, max_rows) ==
  IF capped /\ max_rows <= 0
  THEN EarlyReturn(start_row)
  ELSE IF ~src.header
  THEN [prepared |-> FALSE, rows |-> << >>, written |-> 0, reached_eof |-> TRUE,
        last_row |-> start_row, opened |-> TRUE]
  ELSE LET r == SliceLoop(src.rows, 0, start_row, capped, max_rows, << >>, start_row)
       IN  [prepared |-> Len(r.rows) > 0,
            rows |-> IF Len(r.rows) = 0 THEN << >> ELSE r.rows,
            written |-> Len(r.rows), reached_eof |-> r.reached_eof,
            last_row |-> r.last_row, opened |-> TRUE]

(* ---------------------------- Loader ----------------------------------- *)
RowsOfDate(tbl, d) == { r \in BagToSet(tbl) : r.date = d }
\* SELECT COUNT(*) FROM table WHERE ingestion_date = d
CountDate(tbl, d) ==
  LET S == RowsOfDate(tbl, d)
      RECURSIVE Sum(_)
      Sum(X) == IF X = {} THEN 0
                ELSE LET x == CHOOSE y \in X : TRUE IN tbl[x] + Sum(X \ {x})
  IN Sum(S)
\* DELETE FROM table WHERE ingestion_date = d
DeleteAll(tbl, d) == EmptyBag

DeleteDate(tbl, d) ==
  LET keep == { r \in BagToSet(tbl) : r.date # d } IN [r \in keep |-> tbl[r]]
\* COPY table FROM STDIN: append every staged row
RECURSIVE CopyRows(_, _, _, _)
CopyRows(tbl, f, rows, d) ==
  IF rows = << >> THEN tbl
  ELSE CopyRows(tbl (+) SetToBag({Row(f, Head(rows), d)}), f, Tail(rows), d)

TrackerSetNothing(tracker, t) == tracker

\* truncate_tracker.get(table) and truncate_tracker[table] = True
TrackerGet(tracker, t) == t \in tracker
TrackerSet(tracker, t) == tracker \cup {t}

needs_delete_never(mode, tracker, t) == FALSE

needs_truncate(mode, tracker, t) == mode = "full" /\ ~TrackerGet(tracker, t)
needs_delete(mode, tracker, t) == mode = "daily" /\ ~TrackerGet(tracker, t)

\* copy_file: clear once per table per run, append, count the date's rows.
copy_file(d, cfg, rows, date, tracker, mode) ==
  LET t == cfg.table
      old == d.tables[t]
      cleared == IF needs_truncate(mode, tracker, t) THEN EmptyBag
                 ELSE IF needs_delete(mode, tracker, t) THEN DeleteDate(old, date)
                 ELSE old
      didClear == needs_truncate(mode, tracker, t) \/ needs_delete(mode, tracker, t)
      new == CopyRows(cleared, cfg.name, rows, date)
  IN [db |-> [d EXCEPT !.tables[t] = new],
      tracker |-> IF didClear THEN TrackerSet(tracker, t) ELSE tracker,
      cleared |-> didClear,
      loaded |-> CountDate(new, date)]

(* ---------------------------- run configuration ------------------------ *)
Args(mode, date, chunk, skip, keep, reset) ==
  [mode |-> mode, date |-> date, chunk_size |-> chunk, skip_static |-> skip,
   keep_temp |-> keep, reset_state |-> reset]

\* --chunk-size is read in daily mode only, --skip-static matters in full
\* mode only (daily mode skips static files by itself): the sets below
\* enumerate the flags a mode reads.
DailyArgs(chunks, resets) ==
  { Args("daily", d, c, FALSE, FALSE, r) : d \in Dates, c \in chunks, r \in resets }
FullArgs(resets) ==
  { Args("full", d, 1, s, FALSE, r) : d \in Dates, s \in BOOLEAN, r \in resets }
AllArgs == DailyArgs(ChunkSizes, BOOLEAN) \cup FullArgs(BOOLEAN)

(* ---------------------------- observations ----------------------------- *)
NoCall == [called |-> FALSE, src |-> SrcMissing,
           start_row |-> 0, rows |-> << >>, reached_eof |-> FALSE,
           last_row |-> 0, loaded |-> FALSE]
NoFailure == [stage |-> "none", file |-> 0, dirty |-> FALSE]
NoPrev == [valid |-> FALSE, args |-> Args("full", "d1", 1, FALSE, FALSE, FALSE),
           pre |-> EmptyDb, source |-> [f \in FileNames |-> SrcMissing],
           dirty |-> FALSE]

NoPrevFull == [valid |-> FALSE, args |-> Args("full", "d1", 1, FALSE, FALSE, FALSE),
               clears |-> [t \in DDL_BY_TABLE |-> 0]]

NewHist(pre, prev, prevFull) ==
  [pre |-> pre,                                   \* committed database at run start
   prev |-> prev,                                 \* the run before, when it rolled back
   prevFull |-> prevFull,                         \* the run before, when a committed full run
   calls |-> [f \in FileNames |-> NoCall],        \* Row Slicer call per file
   saved |-> [f \in FileNames |-> NoRow],         \* save_state call per file
   clears |-> [t \in DDL_BY_TABLE |-> 0],         \* TRUNCATE / DELETE statements per table
   failure |-> NoFailure]

SeqToSet(s) == { s[k] : k \in 1..Len(s) }

InitLog ==
  [started |-> 0, k |-> 0, changes |-> 0,
   chunks |-> {},
   consumed |-> [f \in FileNames |-> [d \in Dates |-> {}]],
   twice |-> {}]

\* The log after a run committed: rows sliced by it are recorded per file
\* and date; a row sliced by two committed runs is recorded in `twice`.
LogCommit(lg, a, h, kcap) ==
  LET slicedBy(f) == SeqToSet(h.calls[f].rows)
      before(f) == UNION { lg.consumed[f][d] : d \in Dates }
  IN [lg EXCEPT
        !.k = Min(lg.k + 1, kcap),
        !.chunks = lg.chunks \cup {a.chunk_size},
        !.consumed = [f \in FileNames |-> [d \in Dates |->
                        IF d = a.date THEN lg.consumed[f][d] \cup slicedBy(f)
                        ELSE lg.consumed[f][d]]],
        !.twice = lg.twice \cup
                  { fx \in FileNames \X (0..Max(MaxRows, MaxSmallRows)) :
                      fx[2] \in slicedBy(fx[1]) /\ fx[2] \in before(fx[1]) }]

(* ---------------------------- transaction ------------------------------ *)
\* conn.commit(): the connection's view becomes the committed database
commit(committed, working) == working
rollback_keeps(committed, working) == working

\* conn.rollback(): the connection's view is discarded
rollback(committed, working) == committed

(* ---------------------------- Orchestrator ----------------------------- *)
\* Every source directory within the bounds.
SourceDirs ==
  { s \in [FileNames -> UNION { SourceChoices(f) : f \in FileNames }] :
      \A f \in FileNames : s[f] \in SourceChoices(f) }
\* The directory holding every catalog file, each with its largest row count.
FullDir == [f \in FileNames |-> SrcRows(RowBound(f))]

\* No prepare_rows call is under observation.
NoProbe == [src |-> SrcMissing, start_row |-> 0, capped |-> FALSE, max_rows |-> 0,
            returned |-> FALSE, result |-> EarlyReturn(0)]

\* Before the first run: the tables exist and are empty, no progress row.
InitWith(dirs) ==
  /\ source \in dirs
  /\ db = EmptyDb
  /\ tx = EmptyDb
  /\ pc = "idle"
  /\ args = NoPrev.args
  /\ state = EmptyDb.ingestion_state
  /\ i = 1
  /\ total_loaded = 0
  /\ table_tracker = {}
  /\ temp_files = {}
  /\ disk = {}
  /\ outcome = "none"
  /\ hist = NewHist(EmptyDb, NoPrev, NoPrevFull)
  /\ log = InitLog
  /\ probe = NoProbe

\* ingest() up to the for loop: connect, ensure_tables, load_state.
StartRun(A) ==
  /\ pc \in {"idle", "done"}
  /\ \E a \in A :
       /\ args' = a
       /\ tx' = load_state_db(db, a.reset_state)
       /\ state' = load_state_db(db, a.reset_state).ingestion_state
  /\ i' = 1
  /\ total_loaded' = 0
  /\ table_tracker' = {}
  /\ temp_files' = {}
  /\ disk' = {}
  /\ outcome' = "none"
  /\ pc' = "loop"
  /\ hist' = NewHist(db, IF outcome = "rolledback"
                         THEN [valid |-> TRUE, args |-> args, pre |-> hist.pre,
                               source |-> source, dirty |-> hist.failure.dirty]
                         ELSE NoPrev,
                    IF outcome = "committed" /\ args.mode = "full"
                    THEN [valid |-> TRUE, args |-> args, clears |-> hist.clears]
                    ELSE NoPrevFull)
  /\ log' = [log EXCEPT !.started = Min(log.started + 1, MaxRuns)]
  /\ UNCHANGED << source, db, probe >>

SkippedIgnoresCompleted(cfg, a, st) ==
  \/ ~source[cfg.name].exists
  \/ a.mode = "daily" /\ ~cfg.incremental
  \/ a.skip_static /\ ~cfg.incremental

SkippedIgnoresStatic(cfg, a, st) ==
  \/ ~source[cfg.name].exists
  \/ a.skip_static /\ ~cfg.incremental
  \/ a.mode = "daily" /\ StateGet(st, cfg.name)[2]

\* The skip rules at the top of the loop body.
Skipped(cfg, a, st) ==
  \/ ~source[cfg.name].exists
  \/ a.mode = "daily" /\ ~cfg.incremental
  \/ a.skip_static /\ ~cfg.incremental
  \/ a.mode = "daily" /\ StateGet(st, cfg.name)[2]

StartRowZero(mode, tracked) == 0

\* start_row=start_row if args.mode == "daily" else 0
StartRowFor(mode, tracked) == IF mode = "daily" THEN tracked ELSE 0

\* The prepare_rows call of the loop body.
Slice(cfg, a, st) ==
  prepare_rows(source[cfg.name], StartRowFor(a.mode, StateGet(st, cfg.name)[1]),
               a.mode # "full", a.chunk_size)

CallOf(cfg, a, st, p, didLoad) ==
  [called |-> TRUE, src |-> source[cfg.name],
   start_row |-> StartRowFor(a.mode, StateGet(st, cfg.name)[1]),
   rows |-> p.rows, reached_eof |-> p.reached_eof, last_row |-> p.last_row,
   loaded |-> didLoad]

SaveAfterLoadAlways(d, mode, f, last_row, reached_eof) ==
  save_state(d, f, last_row, reached_eof)

\* After copy_file: `if args.mode == "daily": save_state(..., last_row, reached_eof)`
SaveAfterLoad(d, mode, f, last_row, reached_eof) ==
  IF mode = "daily" THEN save_state(d, f, last_row, reached_eof) ELSE d

SaveOnEmptyNever(d, mode, f, last_row) == d

\* Nothing prepared: `if args.mode == "daily": save_state(..., last_row, True)`
SaveOnEmpty(d, mode, f, last_row) ==
  IF mode = "daily" THEN save_state(d, f, last_row, TRUE) ELSE d

\* One iteration of `for cfg in RAW_FILES`, run to its end.
ProcessFile ==
  /\ pc = "loop"
  /\ i <= NFiles
  /\ LET cfg == RAW_FILES[i]
         f == cfg.name
         p == Slice(cfg, args, state)
         c == copy_file(tx, cfg, p.rows, args.date, table_tracker, args.mode)
     IN IF Skipped(cfg, args, state)
        THEN UNCHANGED << tx, total_loaded, table_tracker, temp_files, disk, hist >>
        ELSE IF ~p.prepared \/ p.written = 0
        THEN /\ tx' = SaveOnEmpty(tx, args.mode, f, p.last_row)
             /\ hist' = [hist EXCEPT
                           !.calls[f] = CallOf(cfg, args, state, p, FALSE),
                           !.saved[f] = IF args.mode = "daily"
                                        THEN StateRow(p.last_row, TRUE) ELSE NoRow]
             /\ UNCHANGED << total_loaded, table_tracker, temp_files, disk >>
        ELSE /\ tx' = SaveAfterLoad(c.db, args.mode, f, p.last_row, p.reached_eof)
             /\ total_loaded' = total_loaded + c.loaded
             /\ table_tracker' = c.tracker
             /\ temp_files' = temp_files \cup {f}
             /\ disk' = disk \cup {f}
             /\ hist' = [hist EXCEPT
                           !.calls[f] = CallOf(cfg, args, state, p, TRUE),
                           !.saved[f] = IF args.mode = "daily"
                                        THEN StateRow(p.last_row, p.reached_eof) ELSE NoRow,
                           !.clears[cfg.table] = @ + (IF c.cleared THEN 1 ELSE 0)]
  /\ i' = i + 1
  /\ UNCHANGED << source, db, pc, args, state, outcome, log, probe >>

\* The finally block: unlink the registered artifacts unless --keep-temp.
Cleanup(onDisk, registered, a) == IF a.keep_temp THEN onDisk ELSE onDisk \ registered

\* conn.commit() after the loop, then the finally block.
Commit(kcap) ==
  /\ pc = "loop"
  /\ i > NFiles
  /\ db' = commit(db, tx)
  /\ tx' = commit(db, tx)
  /\ outcome' = "committed"
  /\ disk' = Cleanup(disk, temp_files, args)
  /\ pc' = "done"
  /\ log' = LogCommit(log, args, hist, kcap)
  /\ UNCHANGED << source, args, state, i, total_loaded, table_tracker, temp_files,
                  hist, probe >>

\* An exception raised at `stage` of the current iteration (or by commit):
\* what the transaction and the disk hold when it is raised.
AtFailure(stage) ==
  LET cfg == RAW_FILES[Min(i, NFiles)]
      f == cfg.name
      p == Slice(cfg, args, state)
      c == copy_file(tx, cfg, p.rows, args.date, table_tracker, args.mode)
      cleared == copy_file(tx, cfg, << >>, args.date, table_tracker, args.mode)
  IN CASE stage = "slice" ->
            \* prepare_rows raises after NamedTemporaryFile(delete=False)
            [ok |-> i <= NFiles /\ ~Skipped(cfg, args, state)
                    /\ ~(args.mode = "daily" /\ args.chunk_size <= 0)
                    /\ source[f].header,
             tx |-> tx, disk |-> disk \cup {f}, registered |-> temp_files]
       [] stage = "copy" ->
            \* copy_file raises in COPY, after the clear statement
            [ok |-> i <= NFiles /\ ~Skipped(cfg, args, state) /\ p.prepared,
             tx |-> cleared.db, disk |-> disk \cup {f}, registered |-> temp_files \cup {f}]
       [] stage = "save" ->
            \* save_state raises
            [ok |-> i <= NFiles /\ ~Skipped(cfg, args, state) /\ args.mode = "daily",
             tx |-> IF p.prepared THEN c.db ELSE tx,
             disk |-> IF p.prepared THEN disk \cup {f} ELSE disk,
             registered |-> IF p.prepared THEN temp_files \cup {f} ELSE temp_files]
       [] OTHER ->
            \* conn.commit() raises
            [ok |-> i > NFiles, tx |-> tx, disk |-> disk, registered |-> temp_files]

FailStages == {"slice", "copy", "save", "commit"}

\* except: conn.rollback(); raise -- then the finally block.
Fail ==
  /\ pc = "loop"
  /\ \E stage \in FailStages :
       LET x == AtFailure(stage) IN
       /\ x.ok
       /\ db' = rollback(db, x.tx)
       /\ tx' = rollback(db, x.tx)
       /\ temp_files' = x.registered
       /\ disk' = Cleanup(x.disk, x.registered, args)
       /\ hist' = [hist EXCEPT !.failure =
                     [stage |-> stage, file |-> i, dirty |-> x.tx # db]]
  /\ outcome' = "rolledback"
  /\ pc' = "done"
  /\ UNCHANGED << source, args, state, i, total_loaded, table_tracker, log, probe >>

\* The source directory is rewritten between two runs.
ChangeSource ==
  /\ pc \in {"idle", "done"}
  /\ log.changes < MaxSourceChanges
  /\ \E f \in FileNames : \E s \in SourceChoices(f) :
       /\ s # source[f]
       /\ source' = [source EXCEPT ![f] = s]
  /\ log' = [log EXCEPT !.changes = @ + 1]
  /\ UNCHANGED << db, tx, pc, args, state, i, total_loaded, table_tracker,
                  temp_files, disk, outcome, hist, probe >>

(* ---------------------------- specifications --------------------------- *)
\* Any mode and any flags, a bounded number of runs, sources may be rewritten.
Next ==
  \/ (log.started < MaxRuns /\ StartRun(AllArgs))
  \/ ProcessFile
  \/ Commit(MaxDrainRuns)
  \/ Fail

\* Directories that differ from FullDir in at most one file.
OneOffDirs == { s \in SourceDirs : Cardinality({ f \in FileNames : s[f] # FullDir[f] }) <= 1 }

\* FullDir with one incremental file replaced by any source file within the
\* bounds (daily runs never open the static file).
IncrementalDirs ==
  { s \in OneOffDirs : s["category_tree"] = FullDir["category_tree"] }

\* FullDir with events.csv replaced by any source file within the bounds.
EventDirs == { s \in OneOffDirs : \A f \in FileNames \ {"events"} : s[f] = FullDir[f] }

Init == InitWith(EventDirs)

Spec == Init /\ [][Next]_vars

\* FullDir with category_tree.csv replaced by any source file within the bounds.
StaticDirs ==
  { s \in OneOffDirs : \A f \in FileNames \ {"category_tree"} : s[f] = FullDir[f] }

\* The general specification on the directories that vary the static file.
SpecStatic == InitWith(StaticDirs) /\ [][Next]_vars

\* One incremental file of the full directory is cut down to zero bytes
\* between two runs.
TruncateSource ==
  /\ pc \in {"idle", "done"}
  /\ source = FullDir
  /\ \E f \in FileNames :
       /\ Cfg(f).incremental
       /\ source' = [source EXCEPT ![f] = SrcEmpty]
  /\ UNCHANGED << db, tx, pc, args, state, i, total_loaded, table_tracker,
                  temp_files, disk, outcome, hist, log, probe >>

\* The general specification on the full directory, where a source file may
\* lose its content between runs.
NextTruncate == Next \/ TruncateSource

SpecTruncate == InitWith({FullDir}) /\ [][NextTruncate]_vars

\* The general specification, with the source directory rewritten between runs.
NextChange == Next \/ ChangeSource

SpecChange == InitWith({FullDir}) /\ [][NextChange]_vars

\* Daily runs without reset on unchanged sources, a bounded number of commits.
NextDaily ==
  \/ (log.k < MaxDrainRuns /\ StartRun(DailyArgs(ChunkSizes, {FALSE})))
  \/ ProcessFile
  \/ Commit(MaxDrainRuns)
  \/ Fail

SpecDaily == InitWith(IncrementalDirs) /\ [][NextDaily]_vars

\* Daily runs without reset, chunk size >= 1, invoked again and again; a run
\* that was started runs to its end.
NextLive ==
  \/ StartRun(DailyArgs({1, 2}, {FALSE}))
  \/ ProcessFile
  \/ Commit(MaxDrainRuns)
  \/ Fail

SpecLive == InitWith(EventDirs) /\ [][NextLive]_vars /\ WF_vars(NextLive)

\* The arguments of one prepare_rows call: a source with or without a header,
\* any start_row >= 0, max_rows None (capped = FALSE) or any chunk size.
ProbeCalls ==
  { [src |-> src, start_row |-> s, capped |-> c, max_rows |-> m,
     returned |-> FALSE, result |-> EarlyReturn(0)] :
      src \in {SrcEmpty} \cup { SrcRows(n) : n \in 0..MaxProbeRows },
      s \in 0..MaxProbeStart, c \in BOOLEAN, m \in (-1)..MaxProbeCap }

\* prepare_rows is called and returns.
CallPrepareRows ==
  /\ ~probe.returned
  /\ probe.src.exists
  /\ probe' = [probe EXCEPT
                 !.returned = TRUE,
                 !.result = prepare_rows(probe.src, probe.start_row, probe.capped,
                                         probe.max_rows)]
  /\ UNCHANGED << source, db, tx, pc, args, state, i, total_loaded, table_tracker,
                  temp_files, disk, outcome, hist, log >>

\* prepare_rows on its own, over every call within the bounds.
SpecSlicer ==
  /\ source = FullDir /\ db = EmptyDb /\ tx = EmptyDb /\ pc = "idle"
  /\ args = NoPrev.args /\ state = EmptyDb.ingestion_state /\ i = 1
  /\ total_loaded = 0 /\ table_tracker = {} /\ temp_files = {} /\ disk = {}
  /\ outcome = "none" /\ hist = NewHist(EmptyDb, NoPrev, NoPrevFull) /\ log = InitLog
  /\ probe \in ProbeCalls
  /\ [][CallPrepareRows]_vars

(* ---------------------------- properties ------------------------------- *)
Finished == pc = "done"
Committed == pc = "done" /\ outcome = "committed"
RolledBack == pc = "done" /\ outcome = "rolledback"

LastRowOf(d, f) == StateGet(d.ingestion_state, f)[1]
CompletedOf(d, f) == StateGet(d.ingestion_state, f)[2]

\* The rows of a table tagged d, with their multiplicities.
DateBag(tbl, d) == [r \in RowsOfDate(tbl, d) |-> tbl[r]]
\* The bag holding Row(f, x, d) once for every x in idx[f], f a file of t.
OnceEach(t, idx, d) ==
  SetToBag({ Row(f, x, d) : f \in FilesOf(t), x \in 0..Max(MaxRows, MaxSmallRows) }
           \cap { r \in [file : FilesOf(t), idx : 0..Max(MaxRows, MaxSmallRows), date : {d}] :
                    r.idx \in idx[r.file] })
Range(a, b) == { x \in 0..Max(MaxRows, MaxSmallRows) : a <= x /\ x < b }

\* C1: after committed daily runs without reset, the rows of every table
\* tagged with a date are exactly the source rows that the runs executed with
\* that date sliced and loaded, for every file of the table, once each.
CE_C1 ==
  pc \in {"idle", "done"} =>
    \A t \in DDL_BY_TABLE : \A d \in Dates :
      DateBag(db.tables[t], d) = OnceEach(t, [f \in FileNames |-> log.consumed[f][d]], d)

\* C2: when a run ends by an exception raised after the connection was
\* opened, the committed tables and progress rows are those the run started
\* from (a --reset-state truncation included).
Thm_C2 == RolledBack => db = hist.pre

\* a run failed at the second file or later, after it had changed rows in its
\* transaction, and the database it started from already held event rows
Wit_C2 ==
  /\ RolledBack
  /\ hist.failure.file >= 2
  /\ hist.failure.dirty
  /\ hist.pre.tables["raw.events"] # EmptyBag
  /\ db = hist.pre

\* C3: a committed daily run saves completed = true for a file only if the
\* prepare_rows call it made for that file returned reached_eof = true.
CE_C3 ==
  (Committed /\ args.mode = "daily") =>
    \A f \in FileNames :
      (hist.saved[f].present /\ hist.saved[f].completed) =>
        (hist.calls[f].called /\ hist.calls[f].reached_eof)

\* C4: a run without --reset-state, daily or full, committed or rolled back,
\* leaves every file's persisted last_row at least as large as it found it.
Thm_C4 ==
  (Finished /\ ~args.reset_state) =>
    \A f \in FileNames : LastRowOf(db, f) >= LastRowOf(hist.pre, f)

\* a committed run without reset moved a file's offset from a positive value
\* to a larger one
Wit_C4 ==
  /\ Committed /\ ~args.reset_state
  /\ \E f \in FileNames :
       LastRowOf(hist.pre, f) > 0 /\ LastRowOf(db, f) > LastRowOf(hist.pre, f)

\* C5: after a committed full run, every table whose catalog files are all
\* present with a header, and not excluded by --skip-static, holds exactly
\* the data rows of those files, tagged with the run's date, once each.
CE_C5 ==
  (Committed /\ args.mode = "full") =>
    \A t \in DDL_BY_TABLE :
      (\A f \in FilesOf(t) : /\ source[f].exists /\ source[f].header
                             /\ ~(args.skip_static /\ ~Cfg(f).incremental)) =>
        db.tables[t] = OnceEach(t, [f \in FileNames |-> Range(0, source[f].rows)],
                                args.date)

\* What one successful daily run with arguments a loads from file f, when it
\* starts from the committed database d: the indices
\* [start, min(start + chunk, n)) of an eligible file that is not completed.
ChunkOf(d, a, f) ==
  IF /\ source[f].exists /\ source[f].header /\ Cfg(f).incremental
     /\ ~CompletedOf(load_state_db(d, a.reset_state), f) /\ a.chunk_size >= 1
  THEN Range(LastRowOf(load_state_db(d, a.reset_state), f),
             Min(LastRowOf(load_state_db(d, a.reset_state), f) + a.chunk_size,
                 source[f].rows))
  ELSE {}

\* C6: when a daily run is rolled back and run again with the same arguments
\* on the same sources, then after the second attempt commits the rows
\* tagged with the run's date are those of one successful run from the
\* database the first attempt started from: in a table that receives a chunk,
\* exactly the chunks of its files, once each; in any other table, the rows
\* of that date it held before.
Thm_C6 ==
  (Committed /\ args.mode = "daily" /\ hist.prev.valid
   /\ hist.prev.args = args /\ hist.prev.source = source) =>
    \A t \in DDL_BY_TABLE :
      DateBag(db.tables[t], args.date) =
        IF \E f \in FilesOf(t) : ChunkOf(hist.prev.pre, args, f) # {}
        THEN OnceEach(t, [f \in FileNames |-> ChunkOf(hist.prev.pre, args, f)], args.date)
        ELSE DateBag(hist.prev.pre.tables[t], args.date)

\* the first attempt failed after it had changed rows in its transaction, a
\* table already held rows of the date, and the retry loaded a chunk into it
Wit_C6 ==
  /\ Committed /\ args.mode = "daily" /\ hist.prev.valid /\ hist.prev.dirty
  /\ hist.prev.args = args /\ hist.prev.source = source
  /\ \E f \in FileNames :
       /\ DateBag(hist.prev.pre.tables[Cfg(f).table], args.date) # EmptyBag
       /\ hist.calls[f].loaded

\* C7: within one run no table is cleared (TRUNCATE or DELETE of the run's
\* date) more than once.
Thm_C7 == \A t \in DDL_BY_TABLE : hist.clears[t] <= 1

\* both item-property files loaded rows in one committed run, and their
\* table was cleared once
Wit_C7 ==
  /\ Committed
  /\ hist.calls["item_properties_part1"].loaded
  /\ hist.calls["item_properties_part2"].loaded
  /\ hist.clears["raw.item_properties"] = 1

\* The files C8 and C9 speak of: incremental, present, with a header.
Drainable == { f \in FileNames : Cfg(f).incremental /\ source[f].exists /\ source[f].header }

\* C8: from NotStarted, after k >= 1 committed daily runs that all used chunk
\* size c >= 1, on an unchanged source of n data rows and without reset, the
\* progress row is (min(k*c, n), k*c >= n); the k-th run sliced exactly the
\* rows [(k-1)*c, min(k*c, n)) in order and loaded them when there are any;
\* and a run that found the file completed made no Row Slicer call for it.
Thm_C8 ==
  \A c \in { x \in ChunkSizes : x >= 1 } :
    (log.k >= 1 /\ log.chunks = {c} /\ pc \in {"idle", "done"}) =>
      \A f \in Drainable :
        LET n == source[f].rows
            k == log.k
        IN /\ db.ingestion_state[f] = StateRow(Min(k * c, n), k * c >= n)
           /\ Committed =>
                /\ SeqToSet(hist.calls[f].rows) = Range((k - 1) * c, Min(k * c, n))
                /\ \A a, b \in 1..Len(hist.calls[f].rows) :
                     a < b => hist.calls[f].rows[a] < hist.calls[f].rows[b]
                /\ hist.calls[f].loaded = (Range((k - 1) * c, Min(k * c, n)) # {})
                /\ (k > 1 /\ (k - 1) * c >= n) => ~hist.calls[f].called
                /\ (k = 1 \/ (k - 1) * c < n) => hist.calls[f].called

\* a file of two or more rows was drained by chunks of one row, and the run
\* after its completion committed without slicing it
Wit_C8 ==
  /\ Committed /\ log.chunks = {1}
  /\ \E f \in Drainable :
       /\ source[f].rows >= 2
       /\ log.k = source[f].rows + 1
       /\ ~hist.calls[f].called
       /\ db.ingestion_state[f] = StateRow(source[f].rows, TRUE)

\* Every drainable file is completed at its source's row count.
AllDrained ==
  \A f \in Drainable : db.ingestion_state[f] = StateRow(source[f].rows, TRUE)

\* C9: when daily runs with chunk size >= 1 and without reset commit again
\* and again on unchanged sources, every present incremental file is
\* eventually completed with last_row equal to its number of data rows; and
\* no source row is ever sliced by two committed runs.
Thm_C9 ==
  /\ ([]<><<Commit(MaxDrainRuns)>>_vars) => <>AllDrained
  /\ [](log.twice = {})

\* a file of two or more rows was completed by a second or later commit
Wit_C9 ==
  /\ Committed /\ AllDrained /\ log.k >= 2
  /\ \E f \in Drainable :
       /\ source[f].rows >= 2
       /\ LastRowOf(hist.pre, f) > 0 /\ ~CompletedOf(hist.pre, f)

\* C11: in a daily run a file whose loaded state is completed is skipped:
\* no Row Slicer call, no load and no save_state for it, and its progress
\* row is after the run what it was before.
Thm_C11 ==
  (pc \in {"loop", "done"} /\ args.mode = "daily") =>
    \A f \in FileNames :
      StateGet(state, f)[2] =>
        /\ ~hist.calls[f].called /\ ~hist.calls[f].loaded
        /\ ~hist.saved[f].present
        /\ tx.ingestion_state[f] = hist.pre.ingestion_state[f]
        /\ Finished => db.ingestion_state[f] = hist.pre.ingestion_state[f]

\* a committed daily run skipped a completed file that still exists, and
\* loaded another file
Wit_C11 ==
  /\ Committed /\ args.mode = "daily"
  /\ \E f, g \in FileNames :
       /\ StateGet(state, f)[2] /\ source[f].exists /\ source[f].rows > 0
       /\ hist.calls[g].loaded

\* C12: during and after a daily run, for every catalog file that is not
\* incremental, present or not: no Row Slicer call was made for it, its
\* table was not cleared and holds what it held before the run, and the file
\* has no progress row.
Thm_C12 ==
  (pc \in {"loop", "done"} /\ args.mode = "daily") =>
    \A f \in FileNames :
      ~Cfg(f).incremental =>
        /\ ~hist.calls[f].called /\ ~hist.calls[f].loaded
        /\ ~hist.saved[f].present
        /\ hist.clears[Cfg(f).table] = 0
        /\ tx.tables[Cfg(f).table] = hist.pre.tables[Cfg(f).table]
        /\ tx.ingestion_state[f] = NoRow
        /\ Finished => /\ db.tables[Cfg(f).table] = hist.pre.tables[Cfg(f).table]
                       /\ db.ingestion_state[f] = NoRow

\* a committed daily run loaded an incremental file while category_tree.csv
\* was present and its table held the rows of an earlier full run
Wit_C12 ==
  /\ Committed /\ args.mode = "daily"
  /\ source["category_tree"].exists /\ source["category_tree"].rows > 0
  /\ db.tables["raw.category_tree"] # EmptyBag
  /\ \E g \in FileNames : hist.calls[g].loaded

\* The files a full run with arguments a processes: present, with a header,
\* and not excluded by --skip-static.
ProcessedByFull(a) ==
  { f \in FileNames : /\ source[f].exists /\ source[f].header
                      /\ ~(a.skip_static /\ ~Cfg(f).incremental) }

\* C13: when a committed full run follows a committed full run with the same
\* arguments on unchanged sources, every table holds after the second run
\* the rows, and the number of rows, it held after the first; and in each of
\* the two runs every table targeted by a processed file was truncated
\* exactly once.
CE_C13 ==
  (Committed /\ args.mode = "full" /\ hist.prevFull.valid /\ hist.prevFull.args = args) =>
    \A t \in DDL_BY_TABLE :
      /\ db.tables[t] = hist.pre.tables[t]
      /\ BagCardinality(db.tables[t]) = BagCardinality(hist.pre.tables[t])
      /\ (FilesOf(t) \cap ProcessedByFull(args) # {}) =>
           (hist.clears[t] = 1 /\ hist.prevFull.clears[t] = 1)

\* C14: without --keep-temp, no staging artifact of a run exists once the
\* run has ended, whether it committed or raised.
CE_C14 == (Finished /\ ~args.keep_temp) => disk = {}

\* The rows the COPY statements of the current run appended, over all files.
RowsAppended ==
  LET RECURSIVE Total(_)
      Total(F) == IF F = {} THEN 0
                  ELSE LET f == CHOOSE g \in F : TRUE
                       IN (IF hist.calls[f].loaded THEN Len(hist.calls[f].rows) ELSE 0)
                          + Total(F \ {f})
  IN Total(FileNames)

\* C15: the total a committed run reports is the number of rows it appended
\* to the destination tables, summed over its files.
CE_C15 == Committed => total_loaded = RowsAppended

\* w = max(0, min(m, n - s)), or max(0, n - s) when there is no cap.
SliceWidth(n, s, capped, m) ==
  IF capped THEN Max(0, Min(m, n - s)) ELSE Max(0, n - s)

\* C16: for a source with a header and n data rows, start_row s >= 0 and
\* max_rows None or >= 1, prepare_rows stages exactly the rows s .. s+w-1 in
\* order, returns written = w and last_row_index = s + w, reached_eof exactly
\* when s + w >= n, and no artifact when w = 0.
Thm_C16 ==
  (/\ probe.returned /\ probe.src.header
   /\ (probe.capped => probe.max_rows >= 1)) =>
    LET n == probe.src.rows
        s == probe.start_row
        w == SliceWidth(n, s, probe.capped, probe.max_rows)
        r == probe.result
    IN /\ r.rows = [k \in 1..w |-> s + k - 1]
       /\ r.written = w
       /\ r.last_row = s + w
       /\ r.reached_eof <=> (s + w >= n)
       /\ r.prepared <=> (w > 0)

\* A capped call that started past row 0 and stopped with rows remaining.
Wit_C16 ==
  /\ probe.returned /\ probe.src.header /\ probe.capped
  /\ probe.start_row > 0
  /\ probe.max_rows >= 2
  /\ probe.start_row + probe.max_rows < probe.src.rows
  /\ probe.result.written = probe.max_rows
  /\ ~probe.result.reached_eof

\* The files of table t the current run loaded.
LoadedInto(t) == { g \in FilesOf(t) : hist.calls[g].loaded }

\* C17: a present incremental file without a header row yields nothing once
\* prepare_rows has read it (max_rows None or >= 1): the
\* run goes on, the file is not loaded and no clear is issued on its behalf;
\* a daily run saves its progress row as (offset at the start of the run,
\* completed), a full run leaves its progress row and its table alone.
Thm_C17 ==
  \A f \in FileNames :
    (/\ pc = "loop" \/ Committed
     /\ hist.calls[f].called /\ ~hist.calls[f].src.header
     /\ args.mode = "full" \/ args.chunk_size >= 1) =>
      LET t == Cfg(f).table IN
      /\ ~hist.calls[f].loaded
      /\ hist.calls[f].reached_eof
      /\ hist.clears[t] = (IF LoadedInto(t) = {} THEN 0 ELSE 1)
      /\ LoadedInto(t) = {} => tx.tables[t] = hist.pre.tables[t]
      /\ args.mode = "daily" =>
           /\ tx.ingestion_state[f] = StateRow(StateGet(state, f)[1], TRUE)
           /\ ~args.reset_state =>
                tx.ingestion_state[f] = StateRow(LastRowOf(hist.pre, f), TRUE)
      /\ args.mode = "full" =>
           tx.ingestion_state[f] = load_state_db(hist.pre, args.reset_state).ingestion_state[f]
      /\ Committed => /\ db.ingestion_state[f] = tx.ingestion_state[f]
                      /\ db.tables[t] = tx.tables[t]

\* A committed daily run met an empty file whose tracked offset was above 0
\* and whose table held rows.
Wit_C17 ==
  /\ Committed /\ args.mode = "daily"
  /\ \E f \in FileNames :
       /\ hist.calls[f].called /\ ~hist.calls[f].src.header
       /\ LastRowOf(hist.pre, f) > 0
       /\ db.ingestion_state[f] = StateRow(LastRowOf(hist.pre, f), TRUE)
       /\ db.tables[Cfg(f).table] # EmptyBag

\* C18: a daily run with date D leaves the rows tagged with any other date as
\* they were before the run, in every table, in its transaction and, whether
\* it commits or rolls back, in the database.
Thm_C18 ==
  (pc \in {"loop", "done"} /\ args.mode = "daily") =>
    \A t \in DDL_BY_TABLE : \A d \in Dates \ {args.date} :
      /\ DateBag(tx.tables[t], d) = DateBag(hist.pre.tables[t], d)
      /\ DateBag(db.tables[t], d) = DateBag(hist.pre.tables[t], d)

\* A committed daily run issued its DELETE on, and then loaded into, a table
\* that held rows of another date.
Wit_C18 ==
  /\ Committed /\ args.mode = "daily"
  /\ \E t \in DDL_BY_TABLE : \E d \in Dates \ {args.date} :
       /\ hist.clears[t] = 1
       /\ RowsOfDate(hist.pre.tables[t], d) # {}
       /\ RowsOfDate(db.tables[t], d) # {}
       /\ RowsOfDate(db.tables[t], args.date) # {}

\* C19: a full run without --reset-state leaves every progress row as it was
\* before the run, absent rows included, and slices every file it processes
\* from row 0 to its end, whatever offset or completed flag is tracked.
Thm_C19 ==
  (pc \in {"loop", "done"} /\ args.mode = "full" /\ ~args.reset_state) =>
    /\ tx.ingestion_state = hist.pre.ingestion_state
    /\ db.ingestion_state = hist.pre.ingestion_state
    /\ \A f \in FileNames :
         /\ hist.calls[f].called =>
              /\ hist.calls[f].start_row = 0
              /\ hist.calls[f].src.header =>
                   /\ hist.calls[f].rows = [k \in 1..hist.calls[f].src.rows |-> k - 1]
                   /\ hist.calls[f].reached_eof
         /\ (Committed /\ source[f].exists
               /\ ~(args.skip_static /\ ~Cfg(f).incremental)) => hist.calls[f].called

\* A committed full run without reset sliced, from row 0 to the end, a file
\* tracked as completed at an offset above 0.
Wit_C19 ==
  /\ Committed /\ args.mode = "full" /\ ~args.reset_state
  /\ \E f \in FileNames :
       /\ CompletedOf(hist.pre, f) /\ LastRowOf(hist.pre, f) > 0
       /\ hist.calls[f].loaded
       /\ Len(hist.calls[f].rows) = source[f].rows
       /\ db.ingestion_state[f] = hist.pre.ingestion_state[f]

\* How many times source row idx of file f is present in table tbl, over all
\* dates.
Copies(tbl, f, idx) ==
  LET RECURSIVE Total(_)
      Total(D) == IF D = {} THEN 0
                  ELSE LET d == CHOOSE x \in D : TRUE
                       IN (IF Row(f, idx, d) \in BagToSet(tbl) THEN tbl[Row(f, idx, d)] ELSE 0)
                          + Total(D \ {d})
  IN Total(Dates)

\* C20: after any sequence of committed or rolled-back daily runs without
\* reset on unchanged sources, with any mix of dates, no source row
\* (file, index) is present more than once in its table, and every row
\* present has an index below the persisted last_row of its file.
Thm_C20 ==
  \A t \in DDL_BY_TABLE :
    /\ \A r \in BagToSet(db.tables[t]) :
         /\ r.file \in FilesOf(t)
         /\ Copies(db.tables[t], r.file, r.idx) = 1
         /\ r.idx < LastRowOf(db, r.file)
    /\ \A f \in FilesOf(t) : \A idx \in 0..Max(MaxRows, MaxSmallRows) :
         Copies(db.tables[t], f, idx) <= 1

\* Committed runs with different dates left a table holding rows of one file
\* under both dates, the file consumed to its end.
Wit_C20 ==
  /\ Committed /\ log.k >= 2
  /\ \E f \in FileNames :
       LET tbl == db.tables[Cfg(f).table] IN
       /\ \E r1, r2 \in BagToSet(tbl) :
            /\ r1.file = f /\ r2.file = f
            /\ r1.date # r2.date /\ r1.idx # r2.idx
       /\ LastRowOf(db, f) = source[f].rows

\* C10: a run without --reset-state leaves the progress row of a completed
\* file as it is; and a file that had progress has none after a run only if
\* that run reset the state.
Thm_C10 ==
  Finished =>
    \A f \in FileNames :
      /\ (~args.reset_state /\ CompletedOf(hist.pre, f)) =>
           db.ingestion_state[f] = hist.pre.ingestion_state[f]
      /\ ((LastRowOf(hist.pre, f) > 0 \/ CompletedOf(hist.pre, f))
          /\ LastRowOf(db, f) = 0 /\ ~CompletedOf(db, f)) => args.reset_state

\* a committed daily run without reset found a completed file and left its row
\* as it was, while it advanced another file
Wit_C10 ==
  /\ Committed /\ ~args.reset_state /\ args.mode = "daily" /\ args.chunk_size > 0
  /\ \E f \in FileNames :
       CompletedOf(hist.pre, f) /\ db.ingestion_state[f] = hist.pre.ingestion_state[f]
  /\ db.ingestion_state # hist.pre.ingestion_state

====
